---- MODULE Spec2Model ----
(***************************************************************************)
(* nrs-lib-ts: the entity graph model (data.ts), the aggregation run and   *)
(* the extension resolver (process.ts / ext.ts, described in spec.md       *)
(* sections 4.5 and 4.6) and the DAH_standards producers                   *)
(* (src/exts/DAH_standards.ts).                                            *)
(***************************************************************************)
EXTENDS Integers, Sequences, FiniteSets, TLC

VARIABLES
    input, map, ipc,                                  \* indexEntry call
    data, index, phase, failure, scores, order,       \* aggregation run
    registered, extPhase, initOrder, initialized, extFailure,  \* resolver
    pc, call, ret,                                    \* DAH_standards call
    extConfig, config                                 \* DAH_standards object

idxVars == <<input, map, ipc>>
runVars == <<data, index, phase, failure, scores, order>>
extVars == <<registered, extPhase, initOrder, initialized, extFailure>>
stdVars == <<pc, call, ret, extConfig, config>>
vars == <<input, map, ipc, data, index, phase, failure, scores, order,
          registered, extPhase, initOrder, initialized, extFailure,
          pc, call, ret, extConfig, config>>

----------------------------------------------------------------------------
(* Bounds *)

MaxEntries == 3     \* length of the iterable handed to indexEntry
MaxImpacts == 1     \* impacts per snapshot
MaxRelations == 1   \* relations per snapshot
MaxDeps == 2        \* declared dependencies per extension

Ids == {"a", "b", "c"}

\* the ids that impacts and relations name
ContributionIds == {"a", "c"}

BoundedSeq(S, n) == UNION {[1..k -> S] : k \in 0..n}
BoundedSubsets(S, n) == {T \in SUBSET S : Cardinality(T) <= n}
Range(s) == {s[i] : i \in DOMAIN s}

----------------------------------------------------------------------------
(* data.ts: Entry / Impact / Relation / Data and indexEntry *)

\* Entry: id and the key set of children (Map<Id, Matrix>)
Entry == [id : Ids, children : SUBSET Ids]

\* Impact: the key set of contributors
Impact == [contributors : {{x} : x \in ContributionIds}]

\* Relation: the key sets of contributors and references
Relation == [contributors : {{x} : x \in ContributionIds},
             references : {{x} : x \in ContributionIds}]

\* Data: entries is a Map<Id, Entry> keyed by the entry's id
EntryMaps ==
    UNION {{[k \in S |-> [id |-> k, children |-> f[k]]] :
              f \in [S -> SUBSET Ids]} : S \in SUBSET Ids}

Data == [entries : EntryMaps,
         impacts : BoundedSeq(Impact, MaxImpacts),
         relations : BoundedSeq(Relation, MaxRelations)]

\* Map.prototype.set
MapSet(m, k, v) == [x \in (DOMAIN m) \cup {k} |-> IF x = k THEN v ELSE m[x]]

\* a map that keeps the first value stored under a key
MapSetIfAbsent(m, k, v) == IF k \in DOMAIN m THEN m ELSE MapSet(m, k, v)

RECURSIVE indexEntryLoop(_, _, _)
indexEntryLoop(entries, i, m) ==
    IF i > Len(entries) THEN m
    ELSE indexEntryLoop(entries, i + 1, MapSet(m, entries[i].id, entries[i]))

RECURSIVE indexEntryFirstLoop(_, _, _)
indexEntryFirstLoop(entries, i, m) ==
    IF i > Len(entries) THEN m
    ELSE indexEntryFirstLoop(entries, i + 1,
                             MapSetIfAbsent(m, entries[i].id, entries[i]))

indexEntryFirstWins(entries) == indexEntryFirstLoop(entries, 1, <<>>)

indexEntry(entries) == indexEntryLoop(entries, 1, <<>>)

InitIndex ==
    /\ input \in BoundedSeq(Entry, MaxEntries)
    /\ map = <<>>
    /\ ipc = "ready"

ParkIndex == input = <<>> /\ map = <<>> /\ ipc = "off"

CallIndexEntry ==
    /\ ipc = "ready"
    /\ map' = indexEntry(input)
    /\ ipc' = "done"
    /\ UNCHANGED <<input, runVars, extVars, stdVars>>

----------------------------------------------------------------------------
(* The aggregation run, spec.md 4.5 *)

\* the values of Data.entries in iteration order
RECURSIVE MapValues(_, _)
MapValues(m, keys) ==
    IF keys = {} THEN <<>>
    ELSE LET k == CHOOSE x \in keys : TRUE
         IN <<m[k]>> \o MapValues(m, keys \ {k})

\* a lookup that forgets the relations
ReferencedIdsNoRelations(d) ==
    UNION {d.entries[k].children : k \in DOMAIN d.entries}
    \cup UNION {d.impacts[i].contributors : i \in DOMAIN d.impacts}

\* every Id used as a child, a contributor or a reference
ReferencedIds(d) ==
    UNION {d.entries[k].children : k \in DOMAIN d.entries}
    \cup UNION {d.impacts[i].contributors : i \in DOMAIN d.impacts}
    \cup UNION {d.relations[j].contributors : j \in DOMAIN d.relations}
    \cup UNION {d.relations[j].references : j \in DOMAIN d.relations}

\* depth-first visit tracking the active recursion path
RECURSIVE Visit(_, _, _)
Visit(idx, id, path) ==
    IF id \in path THEN TRUE
    ELSE \E c \in idx[id].children : Visit(idx, c, path \cup {id})

\* a detection that starts below the root and so misses the root's own edge
HasCycleBelowRoot(idx) ==
    \E r \in DOMAIN idx :
        \E c \in idx[r].children \ {r} :
            \E g \in idx[c].children \ {c} : Visit(idx, g, {c})

HasCycle(idx) == \E r \in DOMAIN idx : Visit(idx, r, {})

\* what an entry's score is reduced from: steps 4 (a), (b), (c)
Gather(d, e) ==
    [impacts |-> {i \in DOMAIN d.impacts : e \in d.impacts[i].contributors},
     relations |-> {j \in DOMAIN d.relations : e \in d.relations[j].references},
     children |-> d.entries[e].children]

InitRun ==
    /\ data \in Data
    /\ index = <<>>
    /\ phase = "start"
    /\ failure = "none"
    /\ scores = <<>>
    /\ order = <<>>

ParkRun ==
    /\ data = [entries |-> <<>>, impacts |-> <<>>, relations |-> <<>>]
    /\ index = <<>>
    /\ phase = "off"
    /\ failure = "none"
    /\ scores = <<>>
    /\ order = <<>>

\* step 1: build the index, check every referenced Id
Validate ==
    /\ phase = "start"
    /\ index' = indexEntry(MapValues(data.entries, DOMAIN data.entries))
    /\ IF ReferencedIds(data) \subseteq DOMAIN index'
       THEN phase' = "validated" /\ failure' = failure
       ELSE phase' = "failed" /\ failure' = "DanglingReference"
    /\ UNCHANGED <<data, scores, order>>
    /\ UNCHANGED <<idxVars, extVars, stdVars>>

\* step 2: detect cycles
DetectCycles ==
    /\ phase = "validated"
    /\ IF HasCycle(index)
       THEN phase' = "failed" /\ failure' = "CyclicEntryGraph"
       ELSE phase' = "acyclic" /\ failure' = failure
    /\ UNCHANGED <<data, index, scores, order>>
    /\ UNCHANGED <<idxVars, extVars, stdVars>>

\* a processing order that ignores the children
ComputeScoreAnyOrder(e) ==
    /\ phase = "acyclic"
    /\ e \in DOMAIN index
    /\ e \notin DOMAIN scores
    /\ scores' = MapSet(scores, e, Gather(data, e))
    /\ order' = Append(order, e)
    /\ UNCHANGED <<data, index, phase, failure>>
    /\ UNCHANGED <<idxVars, extVars, stdVars>>

\* steps 3 to 5: the next entry in reverse topological order
ComputeScore(e) ==
    /\ phase = "acyclic"
    /\ e \in DOMAIN index
    /\ e \notin DOMAIN scores
    /\ index[e].children \subseteq DOMAIN scores
    /\ scores' = MapSet(scores, e, Gather(data, e))
    /\ order' = Append(order, e)
    /\ UNCHANGED <<data, index, phase, failure>>
    /\ UNCHANGED <<idxVars, extVars, stdVars>>

\* the result map is returned
Finish ==
    /\ phase = "acyclic"
    /\ DOMAIN scores = DOMAIN index
    /\ phase' = "done"
    /\ UNCHANGED <<data, index, failure, scores, order>>
    /\ UNCHANGED <<idxVars, extVars, stdVars>>

----------------------------------------------------------------------------
(* The extension dependency resolver, spec.md 4.6 *)

ExtNames == {"DAH_factors", "DAH_standards", "DAH_combine_pow", "DAH_overall_score"}

\* an extension that declares nothing
NoDependencies == {}

\* DAH_standards.dependencies()
DAH_standards_dependencies == {"DAH_factors"}

\* the registered extensions with what dependencies() returns for each
Registrations ==
    UNION {{f \in [S -> BoundedSubsets(ExtNames, MaxDeps)] :
              "DAH_standards" \in S =>
                  f["DAH_standards"] = DAH_standards_dependencies} :
           S \in SUBSET ExtNames}

OrdersOf(S) ==
    {s \in [1..Cardinality(S) -> S] : \A x \in S : \E i \in DOMAIN s : s[i] = x}

Before(s, i) == {s[j] : j \in 1..(i - 1)}

\* topological sort of the declared-dependency graph
TopologicalOrders(reg) ==
    {s \in OrdersOf(DOMAIN reg) :
        \A i \in DOMAIN s : reg[s[i]] \subseteq Before(s, i)}

InitExt ==
    /\ registered \in Registrations
    /\ extPhase = "registered"
    /\ initOrder = <<>>
    /\ initialized = <<>>
    /\ extFailure = "none"

ParkExt ==
    /\ registered = <<>>
    /\ extPhase = "off"
    /\ initOrder = <<>>
    /\ initialized = <<>>
    /\ extFailure = "none"

\* the resolver: an order, or ExtensionDependencyError
Resolve ==
    /\ extPhase = "registered"
    /\ IF TopologicalOrders(registered) = {}
       THEN /\ extPhase' = "failed"
            /\ extFailure' = "ExtensionDependencyError"
            /\ initOrder' = initOrder
       ELSE /\ extPhase' = "resolved"
            /\ extFailure' = extFailure
            /\ initOrder' \in TopologicalOrders(registered)
    /\ UNCHANGED <<registered, initialized>>
    /\ UNCHANGED <<idxVars, runVars, stdVars>>

\* the next extension of the order is initialized
InitializeNext ==
    /\ extPhase = "resolved"
    /\ Len(initialized) < Len(initOrder)
    /\ initialized' = Append(initialized, initOrder[Len(initialized) + 1])
    /\ UNCHANGED <<registered, extPhase, initOrder, extFailure>>
    /\ UNCHANGED <<idxVars, runVars, stdVars>>

\* every extension is initialized
Ready ==
    /\ extPhase = "resolved"
    /\ Len(initialized) = Len(initOrder)
    /\ extPhase' = "ready"
    /\ UNCHANGED <<registered, initOrder, initialized, extFailure>>
    /\ UNCHANGED <<idxVars, runVars, stdVars>>

----------------------------------------------------------------------------
(* Numbers: IEEE doubles as fixed point thousandths, NaN and +-Infinity *)

Unit == 10 * 100

Fin(x) == [k |-> "fin", v |-> x]
NaN == [k |-> "nan", v |-> 0]
Inf(sgn) == [k |-> "inf", v |-> sgn]

Sgn(x) == IF x > 0 THEN 1 ELSE IF x < 0 THEN -1 ELSE 0
AbsInt(x) == IF x < 0 THEN -x ELSE x

\* integer quotient rounded toward zero, b # 0
Quot(a, b) == Sgn(a) * Sgn(b) * (AbsInt(a) \div AbsInt(b))

\* a * b
NumMul(a, b) ==
    IF a.k = "nan" \/ b.k = "nan" THEN NaN
    ELSE IF a.k = "inf" \/ b.k = "inf"
         THEN IF a.v = 0 \/ b.v = 0 THEN NaN ELSE Inf(Sgn(a.v) * Sgn(b.v))
         ELSE Fin(Quot(a.v * b.v, Unit))

\* a / b
NumDiv(a, b) ==
    IF a.k = "nan" \/ b.k = "nan" THEN NaN
    ELSE IF a.k = "inf"
         THEN IF b.k = "inf" THEN NaN
              ELSE Inf(a.v * (IF b.v < 0 THEN -1 ELSE 1))
         ELSE IF b.k = "inf" THEN Fin(0)
         ELSE IF b.v = 0
              THEN IF a.v = 0 THEN NaN ELSE Inf(Sgn(a.v))
              ELSE Fin(Quot(a.v * Unit, b.v))

\* a + b
NumAdd(a, b) ==
    IF a.k = "nan" \/ b.k = "nan" THEN NaN
    ELSE IF a.k = "inf" /\ b.k = "inf"
         THEN IF a.v = b.v THEN a ELSE NaN
         ELSE IF a.k = "inf" THEN a
         ELSE IF b.k = "inf" THEN b
         ELSE Fin(a.v + b.v)

----------------------------------------------------------------------------
(* DAH_factors.ts and process.ts as DAH_standards uses them *)

\* the factors, in the order of their factorIndex
FactorOrder == <<"AP", "AU", "CP", "CU", "MP", "MU", "AV", "AL", "AM",
                 "Boredom", "Additional">>

factorCount == Len(FactorOrder)

FactorIndex(name) == CHOOSE i \in DOMAIN FactorOrder : FactorOrder[i] = name

newZeroVector == [i \in 1..factorCount |-> Fin(0)]

SumOf(values) ==
    LET RECURSIVE S(_)
        S(i) == IF i = 0 THEN 0 ELSE values[i] + S(i - 1)
    IN S(Len(values))

MaxOf(values) == CHOOSE m \in Range(values) : \A x \in Range(values) : x <= m

\* what combine may return for two or more values: zeros are absorbed, one
\* value is returned as it is, several are reduced to at least the greatest
\* of them and less than their sum
CombineChoices(values) ==
    LET nz == {i \in DOMAIN values : values[i] # 0}
    IN IF nz = {} THEN {0}
       ELSE IF Cardinality(nz) = 1 THEN {values[i] : i \in nz}
       ELSE {MaxOf(values), (MaxOf(values) + SumOf(values)) \div 2}

\* combine(context, values, weightFn), the reduction of several values
\* being `choice`
combine(values, choice) ==
    IF Len(values) = 0
    THEN [ok |-> FALSE, err |-> "EmptyCombineInput", val |-> NaN]
    ELSE IF Len(values) = 1
         THEN [ok |-> TRUE, err |-> "", val |-> Fin(values[1])]
         ELSE [ok |-> TRUE, err |-> "", val |-> Fin(choice)]

----------------------------------------------------------------------------
(* DAH_standards.ts *)

MaxEmotions == 2    \* length of a WeightedEmotions list

\* Contributors: Map<Id, number>
ContributorMaps == {[x \in {"a"} |-> Unit]}

EmotionFactors == {"AP", "MP"}
Weights == {0, Unit \div 2, Unit}

\* WeightedEmotions: [EmotionFactor, number][]
WeightedEmotions ==
    BoundedSeq([emotion : EmotionFactors, factor : Weights], MaxEmotions)

BaseScores == {Fin(-2 * Unit), Fin(0), Fin((7 * Unit) \div 2)}
FactorInputs == {-Unit, -(Unit \div 2), 0, Unit \div 2, Unit, (3 * Unit) \div 2}
Signs == {1, -1}

\* the outcome of a producer: the Impacts it returns or the error it throws,
\* and the lengths of the value lists combine was called with
Returned(impacts, combines) ==
    [outcome |-> "returned", error |-> "", impacts |-> impacts,
     combines |-> combines]
Thrown(msg, combines) ==
    [outcome |-> "error", error |-> msg, impacts |-> <<>>,
     combines |-> combines]

\* Math.pow(factor, 0.9) on the weights in use
Pow09(factor) ==
    CASE factor = 0 -> Fin(0)
      [] factor = Unit \div 2 -> Fin(536)
      [] factor = Unit -> Fin(Unit)

\* mapClampThrow
mapClampThrow(inp, iMin, iMax, oMin, oMax) ==
    LET num == inp - iMin
        den == inp - iMax
        \* factor = num / den: -Infinity, < 0.0
        below == IF den = 0 THEN num < 0 ELSE num * den < 0
        \* +Infinity, > 1.0
        above == IF den = 0 THEN num > 0 ELSE (num - den) * den > 0
    IN IF below \/ above
       THEN [ok |-> FALSE, err |-> "value out of bounds", val |-> NaN]
       ELSE [ok |-> TRUE, err |-> "",
             val |-> IF den = 0 THEN NaN
                     ELSE Fin(oMin + Quot((oMax - oMin) * num, den))]

\* a loop that writes each score one component further
RECURSIVE emotionVectorLoopShifted(_, _, _, _, _)
emotionVectorLoopShifted(baseScore, emotions, combinedFactor, i, vec) ==
    IF i > Len(emotions) THEN vec
    ELSE emotionVectorLoopShifted(baseScore, emotions, combinedFactor, i + 1,
            [vec EXCEPT ![(FactorIndex(emotions[i].emotion) % factorCount) + 1] =
                NumDiv(NumMul(baseScore, Pow09(emotions[i].factor)),
                       combinedFactor)])

RECURSIVE emotionVectorLoop(_, _, _, _, _)
emotionVectorLoop(baseScore, emotions, combinedFactor, i, vec) ==
    IF i > Len(emotions) THEN vec
    ELSE emotionVectorLoop(baseScore, emotions, combinedFactor, i + 1,
            [vec EXCEPT ![FactorIndex(emotions[i].emotion)] =
                NumDiv(NumMul(baseScore, Pow09(emotions[i].factor)),
                       combinedFactor)])

\* #emotionVector without its assertion
emotionVectorNoGuard(baseScore, emotions, choice) ==
    LET contribFactors == [i \in DOMAIN emotions |-> emotions[i].factor]
        combinedFactor == combine(contribFactors, choice)
    IN IF ~combinedFactor.ok
       THEN [ok |-> FALSE, err |-> combinedFactor.err, vec |-> <<>>,
             combines |-> <<Len(contribFactors)>>]
       ELSE [ok |-> TRUE, err |-> "",
             vec |-> emotionVectorLoop(baseScore, emotions,
                                       combinedFactor.val, 1, newZeroVector),
             combines |-> <<Len(contribFactors)>>]

\* #emotionVector
emotionVector(baseScore, emotions, choice) ==
    IF ~(Len(emotions) > 0)
    THEN [ok |-> FALSE, err |-> "empty emotion list", vec |-> <<>>,
          combines |-> <<>>]
    ELSE LET contribFactors == [i \in DOMAIN emotions |-> emotions[i].factor]
             combinedFactor == combine(contribFactors, choice)
         IN IF ~combinedFactor.ok
            THEN [ok |-> FALSE, err |-> combinedFactor.err, vec |-> <<>>,
                  combines |-> <<Len(contribFactors)>>]
            ELSE [ok |-> TRUE, err |-> "",
                  vec |-> emotionVectorLoop(baseScore, emotions,
                                            combinedFactor.val, 1,
                                            newZeroVector),
                  combines |-> <<Len(contribFactors)>>]

\* #irMeta: { DAH_ir_source: { extension, version, ...meta } }
irMeta(meta) ==
    [DAH_ir_source |->
        meta @@ [extension |-> "DAH_standards", version |-> "1.1.1"]]

impactMeta(meta) == irMeta(meta)

\* #emotionPairsToObject: Object.fromEntries, the last pair of a name wins
emotionPairsToObject(emotions) ==
    [n \in {emotions[i].emotion : i \in DOMAIN emotions} |->
        emotions[CHOOSE i \in DOMAIN emotions :
                    /\ emotions[i].emotion = n
                    /\ \A j \in DOMAIN emotions :
                          emotions[j].emotion = n => j <= i].factor]

emotionMeta(base, emotions) ==
    [base |-> base, emotions |-> emotionPairsToObject(emotions)]

\* emotion(context, contributors, base, emotions, name, meta)
emotion(contributors, base, emotions, name, meta, choice) ==
    LET score == emotionVector(base, emotions, choice)
    IN IF ~score.ok THEN Thrown(score.err, score.combines)
       ELSE Returned(
              <<[contributors |-> contributors,
                 score |-> score.vec,
                 DAH_meta |-> impactMeta(
                     meta @@ [name |-> name,
                              emotionArgs |-> emotionMeta(base, emotions)])]>>,
              score.combines)

NoMeta == <<>>

cry(contributors, emotions, choice) ==
    emotion(contributors, Fin(4 * Unit), emotions, "cry", NoMeta, choice)

xei(contributors, name, factor, sign, base, emotions, choice) ==
    emotion(contributors, base, emotions, name,
            [xeiArgs |-> [factor |-> factor,
                          sign |-> IF sign > 0 THEN "positive" ELSE "negative"]],
            choice)

aei(contributors, factor, sign, emotions, choice) ==
    LET m == mapClampThrow(AbsInt(factor), 0, Unit, 2 * Unit, 3 * Unit)
    IN IF ~m.ok THEN Thrown(m.err, <<>>)
       ELSE xei(contributors, "aei", factor, sign,
                NumMul(m.val, Fin(sign * Unit)), emotions, choice)

nei(contributors, factor, sign, emotions, choice) ==
    LET m == mapClampThrow(AbsInt(factor), 0, Unit, 0, 2 * Unit)
    IN IF ~m.ok THEN Thrown(m.err, <<>>)
       ELSE xei(contributors, "nei", factor, sign,
                NumMul(m.val, Fin(sign * Unit)), emotions, choice)

ehi(contributors) ==
    emotion(contributors, Fin((7 * Unit) \div 2),
            <<[emotion |-> "AP", factor |-> Unit]>>, "ehi", NoMeta, 0)

epi(contributors, factor) ==
    LET m == mapClampThrow(factor, 0, Unit, (7 * Unit) \div 2, (9 * Unit) \div 2)
    IN IF ~m.ok THEN Thrown(m.err, <<>>)
       ELSE emotion(contributors, m.val,
                    <<[emotion |-> "AP", factor |-> Unit]>>, "epi",
                    [epiArgs |-> [factor |-> factor]], 0)

jumpscare(contributors) ==
    emotion(contributors, Fin(Unit),
            <<[emotion |-> "MP", factor |-> Unit]>>, "jumpscare", NoMeta, 0)

sleeplessNight(contributors) ==
    emotion(contributors, Fin(4 * Unit),
            <<[emotion |-> "MP", factor |-> Unit]>>, "sleeplessNight",
            NoMeta, 0)

----------------------------------------------------------------------------
(* DAH_standards.ts: date periods and the producers that use them *)

MaxPeriods == 2     \* length of a DatePeriod list

\* DateTime and Duration in minutes
MinutesPerDay == 24 * 60
DateTimes == {0, 12 * MinutesPerDay}
Lengths == {MinutesPerDay}

\* FromToPeriod | DurationPeriod
DatePeriod ==
    [type : {"fromto"}, from : DateTimes, to : DateTimes]
    \cup [type : {"duration"}, length : Lengths]

DatePeriods == BoundedSeq(DatePeriod, MaxPeriods)

Strengths == {-(Unit \div 2), 0, Unit, 2 * Unit, (5 * Unit) \div 2}

\* luxon: a.diff(b) is the Duration a - b
DateTimeDiff(a, b) == a - b

\* luxon: Duration.as("days")
AsDays(duration) == Fin(Quot(duration * Unit, MinutesPerDay))

\* luxon: Duration.toISO
toISO(duration) == <<"PT", duration, "M">>

\* #periodLength
periodLength(period) ==
    IF period.type = "duration" THEN period.length
    ELSE DateTimeDiff(period.from, period.to)

RECURSIVE periodsLengthLoop(_, _, _)
periodsLengthLoop(periods, i, duration) ==
    IF i > Len(periods) THEN duration
    ELSE periodsLengthLoop(periods, i + 1,
                           duration + periodLength(periods[i]))

\* #periodsLength
periodsLength(periods) == periodsLengthLoop(periods, 1, 0)

\* #periodMeta
periodMeta(period) ==
    IF period.type = "duration"
    THEN [type |-> "duration", duration |-> toISO(period.length)]
    ELSE [type |-> "fromto", from |-> period.from, to |-> period.to,
          duration |-> toISO(DateTimeDiff(period.from, period.to))]

periodsMeta(periods) == [i \in DOMAIN periods |-> periodMeta(periods[i])]

\* Math.min(10, days)
Min10(days) == IF days.v > 10 * Unit THEN Fin(10 * Unit) ELSE days

\* Math.pow(x, 1.3) on whole numbers of days up to 10
Pow13(x) ==
    IF x.v < 0 THEN NaN
    ELSE IF x.v = 0 THEN Fin(0)
    ELSE Fin(<<1000, 2462, 4171, 6063, 8103, 10271, 12550, 14929, 17399,
               19953>>[x.v \div Unit])

\* Math.pow(x, factorWeight) for a factorWeight this file does not set:
\* NaN or x below zero, 0 or 1 at zero, x or 1 above
FactorWeightPowChoices(x) ==
    IF x.v < 0 THEN {NaN, x}
    ELSE IF x.v = 0 THEN {Fin(0), Fin(Unit)}
    ELSE {x, Fin(Unit)}

pads(contributors, periods, emotions, choice) ==
    LET duration == periodsLength(periods)
        days == AsDays(duration)
        base == NumMul(Fin((3 * Unit) \div 10), Pow13(Min10(days)))
    IN emotion(contributors, base, emotions, "pads",
               [padsArgs |-> [duration |-> duration, days |-> days,
                              periods |-> periodsMeta(periods)]],
               choice)

\* the results of two producers in one array; the first error is thrown
InOrder(first, second) ==
    IF first.outcome = "error" THEN first
    ELSE IF second.outcome = "error"
         THEN Thrown(second.error, first.combines \o second.combines)
         ELSE Returned(first.impacts \o second.impacts,
                       first.combines \o second.combines)

maxAEIPADS(contributors, periods, emotions, choice) ==
    InOrder(aei(contributors, Unit, 1, emotions, choice),
            pads(contributors, periods, emotions, choice))

cryPADS(contributors, periods, emotions, choice) ==
    InOrder(cry(contributors, emotions, choice),
            pads(contributors, periods, emotions, choice))

\* pw: Math.pow(days / 90, MP.factorWeight)
waifu(contributors, waifuName, periods, pw) ==
    LET duration == periodsLength(periods)
        days == AsDays(duration)
        base == NumMul(Fin((12 * Unit) \div 10), pw)
    IN emotion(contributors, base,
               <<[emotion |-> "MP", factor |-> Unit]>>, "waifu",
               [waifuArgs |-> [waifu |-> waifuName, duration |-> duration,
                               days |-> days,
                               periods |-> periodsMeta(periods)]],
               0)

\* pw: Math.pow(days / 120, AP.factorWeight)
meme(contributors, strength, periods, pw) ==
    IF strength < 0 \/ strength >= 2 * Unit
    THEN Thrown("strength not in [0, 2] range", <<>>)
    ELSE LET duration == periodsLength(periods)
             base == NumMul(NumMul(Fin(strength), pw), Fin(4 * Unit))
         IN emotion(contributors, base,
                    <<[emotion |-> "AP", factor |-> Unit]>>, "meme",
                    [memeArgs |-> [strength |-> strength,
                                   periods |-> periodsMeta(periods),
                                   duration |-> toISO(duration)]],
                    0)

\* vector(context, values)
RECURSIVE vectorLoop(_, _, _)
vectorLoop(values, i, vec) ==
    IF i > Len(values) THEN vec
    ELSE vectorLoop(values, i + 1,
                    [vec EXCEPT ![FactorIndex(values[i][1])] = values[i][2]])

vector(values) == vectorLoop(values, 1, newZeroVector)

osuSong(contributors, personal, community) ==
    LET personalFactor == mapClampThrow(personal, 0, Unit, 0, Unit \div 2)
        communityFactor == mapClampThrow(community, 0, Unit, 0, Unit \div 5)
    IN IF ~personalFactor.ok THEN Thrown(personalFactor.err, <<>>)
       ELSE IF ~communityFactor.ok THEN Thrown(communityFactor.err, <<>>)
       ELSE Returned(
              <<[contributors |-> contributors,
                 score |-> vector(<<<<"AP", NumAdd(personalFactor.val,
                                                   communityFactor.val)>>>>),
                 DAH_meta |-> impactMeta([name |-> "osuSong",
                                          personal |-> personal,
                                          community |-> community])]>>,
              <<>>)

----------------------------------------------------------------------------
(* DAH_standards.ts: the configuration, consumed and animeConsumed *)

\* ExtConfig_DAH_standards: averageAnimeEpisodeDuration is optional
ExtConfig_DAH_standards ==
    {<<>>} \cup [averageAnimeEpisodeDuration : {30}]

\* constructor: { averageAnimeEpisodeDuration: 20 minutes, ...config }
constructor(cfg) == cfg @@ [averageAnimeEpisodeDuration |-> 20]

\* the durations handed to consumed, in minutes
ConsumedDurations == {0, 5, 9, 10, 11, 119, 120, 121, 240, 360}
Boredoms == {Unit \div 2, Unit}
Episodes == {1, 4, 6, 12}

\* episodeDuration?: Duration, <<>> when left out
EpisodeDurations == {<<>>, <<5>>, <<10>>, <<24>>}

\* luxon: duration.mapUnits((x) => x * k).normalize()
mapUnitsTimes(duration, k) == duration * k

\* tiers whose boundaries belong to the lower tier
consumedTierInclusive(cfg, duration) ==
    IF duration <= 10
    THEN [baseType |-> "tiny", baseScore |-> Fin(Unit \div 10),
          baseDuration |-> 5]
    ELSE IF duration <= 2 * 60
    THEN [baseType |-> "short", baseScore |-> Fin((3 * Unit) \div 10),
          baseDuration |-> 2 * 60]
    ELSE [baseType |-> "long", baseScore |-> Fin(Unit),
          baseDuration |-> mapUnitsTimes(cfg.averageAnimeEpisodeDuration, 12)]

\* consumed: [baseType, baseScore, baseDuration]; < on two Durations compares
\* their valueOf(), the length of each
consumedTier(cfg, duration) ==
    IF duration < 10
    THEN [baseType |-> "tiny", baseScore |-> Fin(Unit \div 10),
          baseDuration |-> 5]
    ELSE IF duration < 2 * 60
    THEN [baseType |-> "short", baseScore |-> Fin((3 * Unit) \div 10),
          baseDuration |-> 2 * 60]
    ELSE [baseType |-> "long", baseScore |-> Fin(Unit),
          baseDuration |-> mapUnitsTimes(cfg.averageAnimeEpisodeDuration, 12)]

\* consumed: ratio, the milliseconds of duration over those of baseDuration;
\* both are the same multiple of their minutes
consumedRatio(cfg, duration) ==
    NumDiv(Fin(duration * Unit),
           Fin(consumedTier(cfg, duration).baseDuration * Unit))

\* pw: Math.pow(ratio, Boredom.factorWeight)
consumed(cfg, contributors, boredom, duration, name, meta, pw) ==
    LET tier == consumedTier(cfg, duration)
        ratio == consumedRatio(cfg, duration)
        boredomScore == NumMul(NumMul(Fin(boredom), tier.baseScore), pw)
    IN Returned(
         <<[contributors |-> contributors,
            score |-> vector(<<<<"Boredom", boredomScore>>>>),
            DAH_meta |-> impactMeta(
                meta @@ [name |-> name,
                         consumedArgs |->
                             [boredom |-> boredom,
                              duration |-> toISO(duration),
                              baseType |-> tier.baseType,
                              baseScore |-> tier.baseScore,
                              baseDuration |-> tier.baseDuration,
                              ratio |-> ratio]])]>>,
         <<>>)

\* episodeDuration ?? this.config.averageAnimeEpisodeDuration
episodeDurationOr(cfg, episodeDuration) ==
    IF episodeDuration = <<>> THEN cfg.averageAnimeEpisodeDuration
    ELSE episodeDuration[1]

animeConsumed(cfg, contributors, boredom, episodes, episodeDuration, pw) ==
    consumed(cfg, contributors, boredom,
             mapUnitsTimes(episodeDurationOr(cfg, episodeDuration), episodes),
             "animeConsumed",
             [animeConsumedArgs |->
                 [episodes |-> episodes,
                  episodeDuration |->
                      episodeDurationOr(cfg, episodeDuration)]],
             pw)

----------------------------------------------------------------------------
(* DAH_standards.ts: the producers of fixed scores, visual and the relations *)

relationMeta(meta) == irMeta(meta)

\* one Impact returned
ReturnedImpact(impact) == Returned(<<impact>>, <<>>)

\* one Relation returned
ReturnedRelation(relation) ==
    [outcome |-> "returned", error |-> "", impacts |-> <<>>,
     combines |-> <<>>, relations |-> <<relation>>]

\* new Map([[reference, matrix]])
references(reference, diagonal) ==
    [x \in {reference} |-> [kind |-> "diagonal", data |-> diagonal]]

politics(contributors) ==
    ReturnedImpact(
        [contributors |-> contributors,
         score |-> vector(<<<<"Additional", Fin((3 * Unit) \div 4)>>>>),
         DAH_meta |-> impactMeta([name |-> "politics"])])

interestField(contributors, newField) ==
    ReturnedImpact(
        [contributors |-> contributors,
         score |-> vector(<<<<"Additional",
                             IF newField THEN Fin(2 * Unit) ELSE Fin(Unit)>>>>),
         DAH_meta |-> impactMeta([name |-> "interestField"])])

dropped(contributors) ==
    ReturnedImpact(
        [contributors |-> contributors,
         score |-> vector(<<<<"Boredom", Fin(-(Unit \div 2))>>>>),
         DAH_meta |-> impactMeta([name |-> "dropped"])])

AdditionalValues == {-Unit, Unit \div 2}
Descriptions == {"description"}

additional(contributors, value, description) ==
    ReturnedImpact(
        [contributors |-> contributors,
         score |-> vector(<<<<"Additional", Fin(value)>>>>),
         DAH_meta |-> impactMeta(
             [name |-> "additional",
              additionalArgs |-> [description |-> description]])])

MusicBases == {Unit \div 2, Unit}

music(contributors, musicBase) ==
    ReturnedImpact(
        [contributors |-> contributors,
         score |-> vector(<<<<"AM", Fin(musicBase)>>>>),
         DAH_meta |-> impactMeta(
             [name |-> "music", musicArgs |-> [musicBase |-> musicBase]])])

\* VisualType: name and factor
VisualType ==
    {[name |-> "animated", factor |-> Unit],
     [name |-> "rpg3dGame", factor |-> Unit],
     [name |-> "animatedShort", factor |-> (4 * Unit) \div 5],
     [name |-> "animatedMV", factor |-> (4 * Unit) \div 5],
     [name |-> "visualNovel", factor |-> (4 * Unit) \div 5],
     [name |-> "manga", factor |-> (4 * Unit) \div 5],
     [name |-> "animatedGachaCardArt", factor |-> (7 * Unit) \div 10],
     [name |-> "gachaCardArt", factor |-> (3 * Unit) \div 5],
     [name |-> "lightNovel", factor |-> Unit \div 2],
     [name |-> "semiAnimatedMV", factor |-> Unit \div 2],
     [name |-> "staticMV", factor |-> (3 * Unit) \div 10],
     [name |-> "albumArt", factor |-> Unit \div 4]}

VisualBases == {Unit \div 2, Unit}
VisualUniques == {0, Unit}

visual(contributors, visualType, base, unique) ==
    LET visualScore ==
            NumMul(NumMul(NumDiv(NumMul(Fin(base),
                                        NumAdd(Fin(unique), Fin(2 * Unit))),
                                 Fin(3 * Unit)),
                          Fin(visualType.factor)),
                   Fin(2 * Unit))
    IN ReturnedImpact(
         [contributors |-> contributors,
          score |-> vector(<<<<"AV", visualScore>>>>),
          DAH_meta |->
              [name |-> "visual",
               visualArgs |-> [visualType |-> visualType.name,
                               base |-> base,
                               unique |-> unique]]])

featureMusic(contributors, reference) ==
    ReturnedRelation(
        [contributors |-> contributors,
         references |->
             references(reference, vector(<<<<"AM", Fin(Unit \div 5)>>>>)),
         DAH_meta |-> relationMeta([name |-> "featureMusic"])])

\* newZeroVector(context).fill(0.2)
remix(contributors, reference) ==
    ReturnedRelation(
        [contributors |-> contributors,
         references |->
             references(reference,
                        [i \in DOMAIN newZeroVector |-> Fin(Unit \div 5)]),
         DAH_meta |-> relationMeta([name |-> "remix"])])

Potentials == {Unit \div 2, Unit}
Effects == {0, Unit}

killedBy(contributors, reference, potential, effect) ==
    LET weights == vector(<<<<"AP", Fin(Unit \div 5)>>,
                            <<"AU", Fin(Unit \div 10)>>,
                            <<"CP", Fin(Unit \div 20)>>,
                            <<"CU", Fin(Unit \div 20)>>,
                            <<"MP", Fin(Unit \div 5)>>,
                            <<"MU", Fin(Unit \div 10)>>,
                            <<"AV", Fin(0)>>,
                            <<"AL", Fin(Unit \div 10)>>,
                            <<"AM", Fin(Unit \div 10)>>,
                            <<"Boredom", Fin(Unit \div 10)>>,
                            <<"Additional", Fin(0)>>>>)
    IN ReturnedRelation(
         [contributors |-> contributors,
          references |->
              references(reference,
                  [i \in DOMAIN weights |->
                      NumMul(NumMul(NumMul(weights[i], Fin(potential)),
                                    Fin(effect)),
                             Fin(2 * Unit))]),
          DAH_meta |-> [name |-> "killedBy"]])

gateOpen(contributors, reference) ==
    ReturnedRelation(
        [contributors |-> contributors,
         references |-> references(reference, newZeroVector),
         DAH_meta |-> [name |-> "gateOpen"]])

----------------------------------------------------------------------------
(* Calls of the producers *)

ParkStd ==
    /\ pc = "off" /\ call = <<>> /\ ret = <<>>
    /\ extConfig = <<>> /\ config = <<>>

\* new DAH_standards(extConfig)
InitStd ==
    /\ pc = "ready" /\ call = <<>> /\ ret = <<>>
    /\ extConfig \in ExtConfig_DAH_standards
    /\ config = constructor(extConfig)

otherVars == <<idxVars, runVars, extVars, extConfig, config>>

EmotionChoices(emotions) ==
    CombineChoices([i \in DOMAIN emotions |-> emotions[i].factor])

\* the arguments of a call; the ones a producer does not take are left out
Args(name, contributors) ==
    [name |-> name, contributors |-> contributors]

CallEmotion ==
    /\ pc = "ready"
    /\ \E c \in ContributorMaps, base \in BaseScores, es \in WeightedEmotions :
         \E choice \in EmotionChoices(es) :
            /\ call' = Args("emotion", c) @@ [base |-> base, emotions |-> es]
            /\ ret' = emotion(c, base, es, "emotion", NoMeta, choice)
    /\ pc' = "returned"
    /\ UNCHANGED otherVars

CallCry ==
    /\ pc = "ready"
    /\ \E c \in ContributorMaps, es \in WeightedEmotions :
         \E choice \in EmotionChoices(es) :
            /\ call' = Args("cry", c) @@ [emotions |-> es]
            /\ ret' = cry(c, es, choice)
    /\ pc' = "returned"
    /\ UNCHANGED otherVars

CallXei ==
    /\ pc = "ready"
    /\ \E c \in ContributorMaps, f \in FactorInputs, sign \in Signs,
          base \in BaseScores, es \in WeightedEmotions :
         \E choice \in EmotionChoices(es) :
            /\ call' = Args("xei", c) @@
                         [factor |-> f, sign |-> sign, base |-> base,
                          emotions |-> es]
            /\ ret' = xei(c, "xei", f, sign, base, es, choice)
    /\ pc' = "returned"
    /\ UNCHANGED otherVars

CallAei ==
    /\ pc = "ready"
    /\ \E c \in ContributorMaps, f \in FactorInputs, sign \in Signs,
          es \in WeightedEmotions :
         \E choice \in EmotionChoices(es) :
            /\ call' = Args("aei", c) @@
                         [factor |-> f, sign |-> sign, emotions |-> es]
            /\ ret' = aei(c, f, sign, es, choice)
    /\ pc' = "returned"
    /\ UNCHANGED otherVars

CallNei ==
    /\ pc = "ready"
    /\ \E c \in ContributorMaps, f \in FactorInputs, sign \in Signs,
          es \in WeightedEmotions :
         \E choice \in EmotionChoices(es) :
            /\ call' = Args("nei", c) @@
                         [factor |-> f, sign |-> sign, emotions |-> es]
            /\ ret' = nei(c, f, sign, es, choice)
    /\ pc' = "returned"
    /\ UNCHANGED otherVars

CallEhi ==
    /\ pc = "ready"
    /\ \E c \in ContributorMaps :
            /\ call' = Args("ehi", c)
            /\ ret' = ehi(c)
    /\ pc' = "returned"
    /\ UNCHANGED otherVars

CallEpi ==
    /\ pc = "ready"
    /\ \E c \in ContributorMaps, f \in FactorInputs :
            /\ call' = Args("epi", c) @@ [factor |-> f]
            /\ ret' = epi(c, f)
    /\ pc' = "returned"
    /\ UNCHANGED otherVars

CallJumpscare ==
    /\ pc = "ready"
    /\ \E c \in ContributorMaps :
            /\ call' = Args("jumpscare", c)
            /\ ret' = jumpscare(c)
    /\ pc' = "returned"
    /\ UNCHANGED otherVars

CallSleeplessNight ==
    /\ pc = "ready"
    /\ \E c \in ContributorMaps :
            /\ call' = Args("sleeplessNight", c)
            /\ ret' = sleeplessNight(c)
    /\ pc' = "returned"
    /\ UNCHANGED otherVars

CallPads ==
    /\ pc = "ready"
    /\ \E c \in ContributorMaps, ps \in DatePeriods, es \in WeightedEmotions :
         \E choice \in EmotionChoices(es) :
            /\ call' = Args("pads", c) @@ [periods |-> ps, emotions |-> es]
            /\ ret' = pads(c, ps, es, choice)
    /\ pc' = "returned"
    /\ UNCHANGED otherVars

CallMaxAEIPADS ==
    /\ pc = "ready"
    /\ \E c \in ContributorMaps, ps \in DatePeriods, es \in WeightedEmotions :
         \E choice \in EmotionChoices(es) :
            /\ call' = Args("maxAEIPADS", c) @@
                         [periods |-> ps, emotions |-> es]
            /\ ret' = maxAEIPADS(c, ps, es, choice)
    /\ pc' = "returned"
    /\ UNCHANGED otherVars

CallCryPADS ==
    /\ pc = "ready"
    /\ \E c \in ContributorMaps, ps \in DatePeriods, es \in WeightedEmotions :
         \E choice \in EmotionChoices(es) :
            /\ call' = Args("cryPADS", c) @@ [periods |-> ps, emotions |-> es]
            /\ ret' = cryPADS(c, ps, es, choice)
    /\ pc' = "returned"
    /\ UNCHANGED otherVars

CallWaifu ==
    /\ pc = "ready"
    /\ \E c \in ContributorMaps, ps \in DatePeriods :
         \E pw \in FactorWeightPowChoices(
                      NumDiv(AsDays(periodsLength(ps)), Fin(90 * Unit))) :
            /\ call' = Args("waifu", c) @@ [periods |-> ps]
            /\ ret' = waifu(c, "w", ps, pw)
    /\ pc' = "returned"
    /\ UNCHANGED otherVars

CallMeme ==
    /\ pc = "ready"
    /\ \E c \in ContributorMaps, strength \in Strengths, ps \in DatePeriods :
         \E pw \in FactorWeightPowChoices(
                      NumDiv(AsDays(periodsLength(ps)), Fin(120 * Unit))) :
            /\ call' = Args("meme", c) @@
                         [strength |-> strength, periods |-> ps]
            /\ ret' = meme(c, strength, ps, pw)
    /\ pc' = "returned"
    /\ UNCHANGED otherVars

CallOsuSong ==
    /\ pc = "ready"
    /\ \E c \in ContributorMaps, personal \in FactorInputs,
          community \in FactorInputs :
            /\ call' = Args("osuSong", c) @@
                         [personal |-> personal, community |-> community]
            /\ ret' = osuSong(c, personal, community)
    /\ pc' = "returned"
    /\ UNCHANGED otherVars

CallConsumed ==
    /\ pc = "ready"
    /\ \E c \in ContributorMaps, boredom \in Boredoms,
          duration \in ConsumedDurations :
         \E pw \in FactorWeightPowChoices(consumedRatio(config, duration)) :
            /\ call' = Args("consumed", c) @@
                         [boredom |-> boredom, duration |-> duration]
            /\ ret' = consumed(config, c, boredom, duration, "consumed",
                               NoMeta, pw)
    /\ pc' = "returned"
    /\ UNCHANGED otherVars

CallAnimeConsumed ==
    /\ pc = "ready"
    /\ \E c \in ContributorMaps, boredom \in Boredoms, episodes \in Episodes,
          episodeDuration \in EpisodeDurations :
         \E pw \in FactorWeightPowChoices(
                      consumedRatio(config,
                          mapUnitsTimes(
                              episodeDurationOr(config, episodeDuration),
                              episodes))) :
            /\ call' = Args("animeConsumed", c) @@
                         [boredom |-> boredom, episodes |-> episodes,
                          episodeDuration |-> episodeDuration]
            /\ ret' = animeConsumed(config, c, boredom, episodes,
                                    episodeDuration, pw)
    /\ pc' = "returned"
    /\ UNCHANGED otherVars

CallPolitics ==
    /\ pc = "ready"
    /\ \E c \in ContributorMaps :
            /\ call' = Args("politics", c)
            /\ ret' = politics(c)
    /\ pc' = "returned"
    /\ UNCHANGED otherVars

CallInterestField ==
    /\ pc = "ready"
    /\ \E c \in ContributorMaps, newField \in BOOLEAN :
            /\ call' = Args("interestField", c) @@ [newField |-> newField]
            /\ ret' = interestField(c, newField)
    /\ pc' = "returned"
    /\ UNCHANGED otherVars

CallDropped ==
    /\ pc = "ready"
    /\ \E c \in ContributorMaps :
            /\ call' = Args("dropped", c)
            /\ ret' = dropped(c)
    /\ pc' = "returned"
    /\ UNCHANGED otherVars

CallAdditional ==
    /\ pc = "ready"
    /\ \E c \in ContributorMaps, value \in AdditionalValues,
          description \in Descriptions :
            /\ call' = Args("additional", c) @@
                         [value |-> value, description |-> description]
            /\ ret' = additional(c, value, description)
    /\ pc' = "returned"
    /\ UNCHANGED otherVars

CallMusic ==
    /\ pc = "ready"
    /\ \E c \in ContributorMaps, musicBase \in MusicBases :
            /\ call' = Args("music", c) @@ [musicBase |-> musicBase]
            /\ ret' = music(c, musicBase)
    /\ pc' = "returned"
    /\ UNCHANGED otherVars

CallVisual ==
    /\ pc = "ready"
    /\ \E c \in ContributorMaps, visualType \in VisualType,
          base \in VisualBases, unique \in VisualUniques :
            /\ call' = Args("visual", c) @@
                         [visualType |-> visualType, base |-> base,
                          unique |-> unique]
            /\ ret' = visual(c, visualType, base, unique)
    /\ pc' = "returned"
    /\ UNCHANGED otherVars

CallFeatureMusic ==
    /\ pc = "ready"
    /\ \E c \in ContributorMaps, reference \in Ids :
            /\ call' = Args("featureMusic", c) @@ [reference |-> reference]
            /\ ret' = featureMusic(c, reference)
    /\ pc' = "returned"
    /\ UNCHANGED otherVars

CallRemix ==
    /\ pc = "ready"
    /\ \E c \in ContributorMaps, reference \in Ids :
            /\ call' = Args("remix", c) @@ [reference |-> reference]
            /\ ret' = remix(c, reference)
    /\ pc' = "returned"
    /\ UNCHANGED otherVars

CallKilledBy ==
    /\ pc = "ready"
    /\ \E c \in ContributorMaps, reference \in Ids,
          potential \in Potentials, effect \in Effects :
            /\ call' = Args("killedBy", c) @@
                         [reference |-> reference, potential |-> potential,
                          effect |-> effect]
            /\ ret' = killedBy(c, reference, potential, effect)
    /\ pc' = "returned"
    /\ UNCHANGED otherVars

CallGateOpen ==
    /\ pc = "ready"
    /\ \E c \in ContributorMaps, reference \in Ids :
            /\ call' = Args("gateOpen", c) @@ [reference |-> reference]
            /\ ret' = gateOpen(c, reference)
    /\ pc' = "returned"
    /\ UNCHANGED otherVars

\* the caller takes the result; the object is ready for the next call
NextCall ==
    /\ pc = "returned"
    /\ pc' = "ready"
    /\ call' = <<>>
    /\ ret' = <<>>
    /\ UNCHANGED otherVars

----------------------------------------------------------------------------
(* Specifications *)

InitSpecIndex == InitIndex /\ ParkRun /\ ParkExt /\ ParkStd

NextIndex == CallIndexEntry

SpecIndex == InitSpecIndex /\ [][NextIndex]_vars

InitSpecRun == ParkIndex /\ InitRun /\ ParkExt /\ ParkStd

NextRun ==
    \/ Validate
    \/ DetectCycles
    \/ \E e \in Ids : ComputeScore(e)
    \/ Finish

SpecRun == InitSpecRun /\ [][NextRun]_vars

InitSpecExt == ParkIndex /\ ParkRun /\ InitExt /\ ParkStd

NextExt ==
    \/ Resolve
    \/ InitializeNext
    \/ Ready

SpecExt == InitSpecExt /\ [][NextExt]_vars

InitSpecStd == ParkIndex /\ ParkRun /\ ParkExt /\ InitStd

NextStd ==
    \/ CallEmotion
    \/ CallCry
    \/ CallXei
    \/ CallAei
    \/ CallNei
    \/ CallEhi
    \/ CallEpi
    \/ CallJumpscare
    \/ CallSleeplessNight
    \/ CallPads
    \/ CallMaxAEIPADS
    \/ CallCryPADS
    \/ CallWaifu
    \/ CallMeme
    \/ CallOsuSong
    \/ CallConsumed
    \/ CallAnimeConsumed
    \/ CallPolitics
    \/ CallInterestField
    \/ CallDropped
    \/ CallAdditional
    \/ CallMusic
    \/ CallVisual
    \/ CallFeatureMusic
    \/ CallRemix
    \/ CallKilledBy
    \/ CallGateOpen
    \/ NextCall

SpecStd == InitSpecStd /\ [][NextStd]_vars

----------------------------------------------------------------------------
(* Properties of indexEntry *)

\* the last position of the iterable that carries id k
LastIndexOf(s, k) ==
    CHOOSE i \in DOMAIN s :
        s[i].id = k /\ \A j \in DOMAIN s : s[j].id = k => j <= i

\* C1: indexEntry is last-write-wins: the returned map's keys are exactly the
\* ids occurring in the iterable, and each id maps to the last entry in
\* iteration order that carries it (so index[k].id = k).
C1_LastWriteWins ==
    ipc = "done" =>
        /\ DOMAIN map = {input[i].id : i \in DOMAIN input}
        /\ \A k \in DOMAIN map :
              /\ map[k] = input[LastIndexOf(input, k)]
              /\ map[k].id = k

\* the call returned for an iterable with two different entries of one id
C1_Witness ==
    /\ ipc = "done"
    /\ \E i, j \in DOMAIN input :
          i < j /\ input[i].id = input[j].id /\ input[i] # input[j]

----------------------------------------------------------------------------
(* Properties of the aggregation run *)

ChildrenIn(d, n) == IF n \in DOMAIN d.entries THEN d.entries[n].children ELSE {}

\* the ids reachable from a frontier along children edges
RECURSIVE Descendants(_, _, _)
Descendants(d, frontier, seen) ==
    IF frontier \subseteq seen THEN seen
    ELSE Descendants(d, UNION {ChildrenIn(d, n) : n \in frontier},
                     seen \cup frontier)

\* the entry->children graph of the snapshot contains a cycle
Cyclic == \E n \in DOMAIN data.entries :
              n \in Descendants(data, ChildrenIn(data, n), {})

\* the ids used as a child, a contributor or a reference with no entry
DanglingRefs ==
    {x \in Ids :
        /\ x \notin DOMAIN data.entries
        /\ \/ \E k \in DOMAIN data.entries : x \in data.entries[k].children
           \/ \E i \in DOMAIN data.impacts : x \in data.impacts[i].contributors
           \/ \E j \in DOMAIN data.relations :
                 x \in data.relations[j].contributors
                    \cup data.relations[j].references}

Terminal == phase \in {"done", "failed"}

\* C2 as stated: every snapshot with a cycle ends in CyclicEntryGraph and
\* never assigns a score; an acyclic snapshot with no dangling ids never
\* reports CyclicEntryGraph.
C2_AsStated ==
    /\ Cyclic =>
          /\ DOMAIN scores = {}
          /\ Terminal => phase = "failed" /\ failure = "CyclicEntryGraph"
          /\ ~Terminal => ENABLED NextRun
    /\ (~Cyclic /\ DanglingRefs = {}) => failure # "CyclicEntryGraph"

\* C2: every snapshot with a cycle never assigns a score; when it has no
\* dangling ids the run ends in the CyclicEntryGraph failure; an acyclic
\* snapshot with no dangling ids never reports CyclicEntryGraph.
C2_CycleDetection ==
    /\ Cyclic =>
          /\ DOMAIN scores = {}
          /\ phase # "done"
          /\ ~Terminal => ENABLED NextRun
    /\ (Cyclic /\ DanglingRefs = {} /\ Terminal) =>
          phase = "failed" /\ failure = "CyclicEntryGraph"
    /\ (~Cyclic /\ DanglingRefs = {}) => failure # "CyclicEntryGraph"

\* the run failed with CyclicEntryGraph on a self-loop next to an entry that
\* is on no cycle
C2_Witness ==
    /\ phase = "failed"
    /\ failure = "CyclicEntryGraph"
    /\ \E n, m \in DOMAIN data.entries :
          /\ n \in data.entries[n].children
          /\ m \notin Descendants(data, ChildrenIn(data, m), {})

\* C3: a dangling child, contributor or reference fails the run with
\* DanglingReference and no entry gets a score; when every referenced id
\* resolves, DanglingReference is never raised.
C3_DanglingAllOrNothing ==
    /\ DanglingRefs # {} =>
          /\ DOMAIN scores = {}
          /\ phase # "start" =>
                phase = "failed" /\ failure = "DanglingReference"
          /\ ~Terminal => ENABLED NextRun
    /\ DanglingRefs = {} => failure # "DanglingReference"

\* the run failed on a snapshot whose only dangling id is a relation's
\* reference, with an entry that could have been scored
C3_Witness ==
    /\ phase = "failed"
    /\ failure = "DanglingReference"
    /\ DOMAIN data.entries # {}
    /\ \E j \in DOMAIN data.relations :
          data.relations[j].references \cap DanglingRefs # {}
    /\ \A k \in DOMAIN data.entries : data.entries[k].children = {}
    /\ \A i \in DOMAIN data.impacts :
          data.impacts[i].contributors \subseteq DOMAIN data.entries

\* the scores computed so far respect children-before-parents, each entry is
\* computed at most once, a finished run holds a score for every entry, and
\* a run that has not ended can take a step
OrderedRun ==
    /\ \A i \in DOMAIN order :
          /\ order[i] \in DOMAIN data.entries
          /\ data.entries[order[i]].children \subseteq Before(order, i)
    /\ \A i, j \in DOMAIN order : order[i] = order[j] => i = j
    /\ Range(order) = DOMAIN scores
    /\ Terminal =>
          /\ phase = "done"
          /\ DOMAIN scores = DOMAIN data.entries
    /\ ~Terminal => ENABLED NextRun

\* C4 as stated: over every acyclic snapshot the run is ordered and ends with
\* a score for every entry.
C4_AsStated == ~Cyclic => OrderedRun

\* C4: over every acyclic snapshot with no dangling ids, an entry's score is
\* computed only after the scores of its children, each entry's score is
\* computed exactly once, and the run ends with a score for every entry id.
C4_ChildrenBeforeParents == (~Cyclic /\ DanglingRefs = {}) => OrderedRun

\* a finished run over a chain of three entries
C4_Witness ==
    /\ phase = "done"
    /\ Len(order) = 3
    /\ \E p, c, g \in DOMAIN data.entries :
          /\ p # c /\ c # g /\ p # g
          /\ c \in data.entries[p].children
          /\ g \in data.entries[c].children

----------------------------------------------------------------------------
(* Properties of the resolver *)

DepsIn(reg, x) == IF x \in DOMAIN reg THEN reg[x] ELSE {}

RECURSIVE Prerequisites(_, _, _)
Prerequisites(reg, frontier, seen) ==
    IF frontier \subseteq seen THEN seen
    ELSE Prerequisites(reg, UNION {DepsIn(reg, x) : x \in frontier},
                       seen \cup frontier)

MissingDependency ==
    \E x \in DOMAIN registered : ~(registered[x] \subseteq DOMAIN registered)

CyclicDependency ==
    \E x \in DOMAIN registered :
        x \in Prerequisites(registered, registered[x], {})

\* C5: each extension is initialized strictly after every extension it
\* declares (DAH_standards after DAH_factors); with a missing dependency or
\* a cycle, resolution fails with ExtensionDependencyError and nothing is
\* initialized.
C5_ExtensionOrdering ==
    /\ \A i \in DOMAIN initialized :
          registered[initialized[i]] \subseteq Before(initialized, i)
    /\ \A i \in DOMAIN initialized :
          initialized[i] = "DAH_standards" =>
              "DAH_factors" \in Before(initialized, i)
    /\ (MissingDependency \/ CyclicDependency) =>
          /\ initialized = <<>>
          /\ extPhase # "registered" =>
                extPhase = "failed" /\ extFailure = "ExtensionDependencyError"

\* every extension is initialized, DAH_standards and two more among them
C5_Witness ==
    /\ extPhase = "ready"
    /\ Len(initialized) >= 3
    /\ "DAH_standards" \in Range(initialized)

----------------------------------------------------------------------------
(* Properties of the DAH_standards producers *)

Came == pc = "returned"
Gave == pc = "returned" /\ ret.outcome = "returned"

\* C6: emotion, cry, pads, aei, nei and xei called with an empty emotions
\* list throw before combine is called and return no Impact; combine is never
\* called with zero values; and the guard fires on an empty list only.
C6_EmptyEmotionGuard ==
    Came =>
        /\ (call.name \in {"emotion", "cry", "pads", "aei", "nei", "xei"}
              /\ Len(call.emotions) = 0) =>
              /\ ret.outcome = "error"
              /\ ret.impacts = <<>>
              /\ ret.combines = <<>>
        /\ \A i \in DOMAIN ret.combines : ret.combines[i] > 0
        /\ ret.error = "empty emotion list" =>
              "emotions" \in DOMAIN call /\ Len(call.emotions) = 0

\* pads stopped by the guard
C6_Witness ==
    /\ Came
    /\ call.name = "pads"
    /\ Len(call.emotions) = 0
    /\ ret.error = "empty emotion list"

InUnitRange(x) == 0 <= x /\ x <= Unit

RangeError == ret.outcome = "error" /\ ret.error = "value out of bounds"

\* C7 as stated: the range check throws exactly when the input is outside
\* [iMin, iMax]: aei and nei exactly when |factor| is outside [0, 1], epi and
\* osuSong exactly when an input is outside [0, 1], and maxAEIPADS never.
C7_AsStated ==
    Came =>
        /\ call.name \in {"aei", "nei"} =>
              (RangeError <=> ~InUnitRange(AbsInt(call.factor)))
        /\ call.name = "epi" => (RangeError <=> ~InUnitRange(call.factor))
        /\ call.name = "osuSong" =>
              (RangeError <=>
                  ~(InUnitRange(call.personal) /\ InUnitRange(call.community)))
        /\ call.name = "maxAEIPADS" => ~RangeError

\* C8 as stated: meme throws its strength error exactly when strength is
\* outside [0, 2], and returns an Impact for every strength in [0, 2].
C8_AsStated ==
    (Came /\ call.name = "meme") =>
        LET inRange == 0 <= call.strength /\ call.strength <= 2 * Unit
        IN /\ ret.error = "strength not in [0, 2] range" <=> ~inRange
           /\ inRange => ret.outcome = "returned" /\ Len(ret.impacts) = 1

\* the call builds an impact from one emotion of weight 1.0
SingleEmotionCall ==
    \/ call.name \in {"ehi", "epi", "jumpscare", "sleeplessNight", "waifu",
                      "meme"}
    \/ /\ call.name \in {"emotion", "cry"}
       /\ Len(call.emotions) = 1
       /\ call.emotions[1].factor = Unit

SingleEmotion ==
    CASE call.name \in {"ehi", "epi", "meme"} -> "AP"
      [] call.name \in {"jumpscare", "sleeplessNight", "waifu"} -> "MP"
      [] OTHER -> call.emotions[1].emotion

SingleBase ==
    CASE call.name = "ehi" -> Fin(3500)
      [] call.name = "jumpscare" -> Fin(1000)
      [] call.name \in {"sleeplessNight", "cry"} -> Fin(4000)
      [] call.name = "emotion" -> call.base
      [] OTHER -> ret.impacts[1].DAH_meta.DAH_ir_source.emotionArgs.base

\* C9: an impact built from exactly one emotion of weight 1.0 has a score of
\* length factorCount whose component at the emotion's factorIndex is the
\* base score and whose other components are 0.
C9_SingleEmotionScore ==
    (Gave /\ SingleEmotionCall) =>
        /\ Len(ret.impacts) = 1
        /\ LET score == ret.impacts[1].score
           IN /\ DOMAIN score = 1..Len(FactorOrder)
              /\ \A i \in DOMAIN score :
                    score[i] = IF FactorOrder[i] = SingleEmotion
                               THEN SingleBase ELSE Fin(0)

\* meme returned an impact with a positive base score for a period
C9_Witness ==
    /\ Gave
    /\ call.name = "meme"
    /\ Len(call.periods) > 0
    /\ SingleBase.k = "fin"
    /\ SingleBase.v > 0

Chronological(period) ==
    IF period.type = "duration" THEN period.length >= 0
    ELSE period.from <= period.to

\* to - from, or the given length
ChronologicalLength(period) ==
    IF period.type = "duration" THEN period.length
    ELSE period.to - period.from

RECURSIVE TotalLength(_, _)
TotalLength(periods, n) ==
    IF n = 0 THEN 0
    ELSE ChronologicalLength(periods[n]) + TotalLength(periods, n - 1)

\* C10 as stated: when every period is chronological, the total used by
\* pads, waifu and meme is the sum of to - from and of the given lengths,
\* and the number of days is >= 0.
C10_AsStated ==
    (Gave /\ call.name \in {"pads", "waifu", "meme"}
          /\ \A i \in DOMAIN call.periods : Chronological(call.periods[i])) =>
        LET src == ret.impacts[1].DAH_meta.DAH_ir_source
            total == TotalLength(call.periods, Len(call.periods))
        IN /\ call.name = "pads" =>
                 src.padsArgs.duration = total /\ src.padsArgs.days.v >= 0
           /\ call.name = "waifu" =>
                 src.waifuArgs.duration = total /\ src.waifuArgs.days.v >= 0
           /\ call.name = "meme" => src.memeArgs.duration = toISO(total)

\* the average episode duration the object was configured with, 20 minutes
\* when the constructor was given none
ConfiguredAverage ==
    IF "averageAnimeEpisodeDuration" \in DOMAIN extConfig
    THEN extConfig.averageAnimeEpisodeDuration ELSE 20

\* the tier of a duration in minutes: <<baseType, baseScore, baseDuration>>
TierOf(minutes) ==
    IF minutes < 10 THEN <<"tiny", Fin(100), 5>>
    ELSE IF minutes < 120 THEN <<"short", Fin(300), 120>>
    ELSE <<"long", Fin(1000), 12 * ConfiguredAverage>>

\* C11: consumed selects its tier from the duration alone, the boundaries
\* belonging to the upper tier: under 10 minutes tiny (0.1, 5 minutes), from
\* 10 minutes to under 2 hours short (0.3, 2 hours), from 2 hours long (1.0,
\* 12 x averageAnimeEpisodeDuration); animeConsumed classifies episodes x
\* episodeDuration, which defaults to the configured average, 20 minutes
\* when unset.
C11_ConsumedTiers ==
    (Came /\ call.name \in {"consumed", "animeConsumed"}) =>
        /\ ret.outcome = "returned"
        /\ Len(ret.impacts) = 1
        /\ LET args == ret.impacts[1].DAH_meta.DAH_ir_source.consumedArgs
               minutes ==
                   IF call.name = "consumed" THEN call.duration
                   ELSE call.episodes *
                        (IF call.episodeDuration = <<>> THEN ConfiguredAverage
                         ELSE call.episodeDuration[1])
           IN <<args.baseType, args.baseScore, args.baseDuration>>
                  = TierOf(minutes)

\* animeConsumed of six episodes of the default 20 minutes, on the 2 hours
\* boundary, by an object configured with no average
C11_Witness ==
    /\ Gave
    /\ call.name = "animeConsumed"
    /\ call.episodes = 6
    /\ call.episodeDuration = <<>>
    /\ extConfig = <<>>

\* the Impacts and Relations a call returned
Produced ==
    ret.impacts \o (IF "relations" \in DOMAIN ret THEN ret.relations ELSE <<>>)

\* DAH_meta is { DAH_ir_source: { extension: "DAH_standards", version, name,
\* ... } } and nothing else
Provenance(meta) ==
    /\ DOMAIN meta = {"DAH_ir_source"}
    /\ {"extension", "version", "name"} \subseteq DOMAIN meta.DAH_ir_source
    /\ meta.DAH_ir_source.extension = "DAH_standards"

\* C12: every Impact and every Relation returned by a public DAH_standards
\* producer has a DAH_meta of the shape {DAH_ir_source: {extension:
\* "DAH_standards", version, name, ...}}: the producer's name and arguments
\* are nested under DAH_ir_source and never at the top level of DAH_meta.
C12_AsStated ==
    Gave => \A i \in DOMAIN Produced : Provenance(Produced[i].DAH_meta)

====
